---- MODULE Spec2Model ----
(***************************************************************************)
(* Timeline and render pipeline of the Fake Text Story builder             *)
(* (src/src/App.tsx): the reveal schedule of FakeTextPreview, and the      *)
(* export pipeline exportMp4Exact of FakeTextBuilder.                      *)
(*                                                                         *)
(* Numbers.  A JavaScript number is a record [k, v]: k = "fin" with the    *)
(* value v, k = "nan", or k = "inf" with the sign v.  Times are in         *)
(* milliseconds.  A delay_s field is either absent (k = "undef") or a      *)
(* number whose finite value v counts tenths of a millisecond, so that     *)
(* delay_s = 2 is Fin(20000) and Math.round(delay_s * 1000) really rounds. *)
(*                                                                         *)
(* Specifications.                                                         *)
(*   SchedSpec  FakeTextPreview's schedule and visibleCount over message   *)
(*              lists the delay input can produce, rendered at any time.   *)
(*   AnySpec    the same over every kind of number delay_s can hold.       *)
(*   Spec       FakeTextBuilder: deleting messages, and exportMp4Exact     *)
(*              step by step between its awaits.  The live preview is      *)
(*              re-rendered when the script changes; its clock is not      *)
(*              advanced here.                                             *)
(*   TimingSpec an export attempt up to the head of the capture loop, with *)
(*              segments whose lengths are not whole milliseconds.         *)
(*   ClockSpec  one interactive FakeTextPreview: its animation frames, the *)
(*              reveal effect's interval and timeouts, the transport bar.  *)
(*   HostClockSpec  one FakeTextPreview in export mode, whose time is set  *)
(*              from outside.                                              *)
(*   LiveSpec   FakeTextBuilder with the clock of its live preview running *)
(*              while exportMp4Exact works on the offscreen host.          *)
(*   EditSpec   FakeTextBuilder: the script editor and the voice select    *)
(*              used while exportMp4Exact runs.                            *)
(*                                                                         *)
(* Time.  `now` is performance.now() in whole milliseconds.  A timer runs  *)
(* at its due time and an animation frame FrameMs after its request; time  *)
(* passes from one due callback to the next.                               *)
(***************************************************************************)
EXTENDS Integers, Sequences, FiniteSets, TLC

VARIABLES
  messages,       \* FakeTextBuilder: the script, a sequence of [id, delay_s]
  timeMs,         \* live FakeTextPreview: the time of its last render
  schedule,       \* live FakeTextPreview: the memoised schedule
  visibleCount,   \* live FakeTextPreview: the memoised visibleCount
  exporting,      \* FakeTextBuilder: the exporting flag
  pc,             \* exportMp4Exact: where the async function stands
  xmessages,      \* exportMp4Exact: the messages its closure captured
  ttsIdx,         \* exportMp4Exact: i of the speech loop (0-based)
  ttsInFlight,    \* synthesizeSegment calls started and not yet settled
  audioDurations, \* exportMp4Exact: measured durations so far
  hostMessages,   \* the messages prop of the mounted export host
  exportTime,     \* export host: its timeMs state (set by __setExportTime)
  exportShown,    \* export host: the time its committed DOM reflects
  frameIdx,       \* exportMp4Exact: i of the capture loop
  inFlight,       \* html2canvas captures started and not yet resolved
  canvas,         \* what the last resolved html2canvas call rasterised
  frames,         \* exportMp4Exact: the captured frames, in push order
  off,            \* the offscreen div of the attempt and its root
  exportNote,     \* FakeTextBuilder: the export note
  audioSegBytes,  \* exportMp4Exact: the segments' true lengths, in 0.1 ms
  written,        \* the frame files written to ffmpeg, in writeFile order
  attempt,        \* what the latest attempt has done to the outside so far
  exportMode,     \* FakeTextPreview: the exportMode prop
  timeOverrideMs, \* FakeTextPreview: the timeOverrideMs prop
  mounted,        \* FakeTextPreview: is the component mounted
  playing,        \* FakeTextPreview: the playing state
  t,              \* FakeTextPreview: the t state, in milliseconds
  startRef,       \* FakeTextPreview: startRef.current
  raf,            \* the due times of the requested animation frames
  now,            \* performance.now()
  revealH,        \* FakeTextPreview: the revealH state
  interval,       \* the live interval of the reveal effect, if any
  timeouts,       \* the due times of the pending reset timeouts
  bubbleH,        \* layout: the height of one bubble of this script
  clicks,         \* the transport bar events so far
  senderVoice,    \* FakeTextBuilder: the senderVoice state
  edits,          \* the script editor's actions so far, up to MaxEdits
  xvoice,         \* exportMp4Exact: the senderVoice its closure captured
  pipelines       \* the calls of exportMp4Exact past its guard, not returned

vars == << messages, timeMs, schedule, visibleCount, exporting, pc, xmessages,
           ttsIdx, ttsInFlight, audioDurations, hostMessages, exportTime,
           exportShown, frameIdx, inFlight, canvas, frames, off,
           exportNote, audioSegBytes, written, attempt, exportMode,
           timeOverrideMs, mounted, playing, t, startRef, raf, now, revealH,
           interval, timeouts, bubbleH, clicks, senderVoice, edits,
           xvoice, pipelines >>

builderVars == << messages, senderVoice, edits >>

clockVars == << exportMode, timeOverrideMs, mounted, playing, t, startRef, raf,
               now, revealH, interval, timeouts, bubbleH, clicks >>

previewVars == << timeMs, schedule, visibleCount, clockVars >>

exportVars == << exporting, pc, xmessages, ttsIdx, ttsInFlight, audioDurations,
                 hostMessages, exportTime, exportShown, frameIdx, inFlight,
                 canvas, frames, off, exportNote, audioSegBytes, written,
                 attempt, xvoice, pipelines >>

-----------------------------------------------------------------------------
(* JavaScript numbers *)

Fin(n) == [k |-> "fin", v |-> n]

NaN == [k |-> "nan", v |-> 0]

Inf(s) == [k |-> "inf", v |-> s]

Undefined == [k |-> "undef", v |-> 0]

Null == [k |-> "null", v |-> 0]

IsFinite(x) == x.k = "fin"

\* a + b
JSAdd(a, b) ==
  IF a.k = "nan" \/ b.k = "nan" THEN NaN
  ELSE IF a.k = "inf" /\ b.k = "inf" THEN (IF a.v = b.v THEN a ELSE NaN)
  ELSE IF a.k = "inf" THEN a
  ELSE IF b.k = "inf" THEN b
  ELSE Fin(a.v + b.v)

\* a >= b
JSGe(a, b) ==
  IF a.k = "nan" \/ b.k = "nan" THEN FALSE
  ELSE IF a.k = "inf" THEN (a.v = 1 \/ (b.k = "inf" /\ b.v = -1))
  ELSE IF b.k = "inf" THEN b.v = -1
  ELSE a.v >= b.v

\* Math.round(n / q) for integers n and q > 0: halves round towards +Infinity
RoundDiv(n, q) == (2 * n + q) \div (2 * q)

Min(a, b) == IF a <= b THEN a ELSE b

Max(a, b) == IF a >= b THEN a ELSE b

Abs(x) == IF x < 0 THEN -x ELSE x

\* Math.round(x * 1000) for x in tenths of a millisecond
MathRoundTimes1000(x) == IF IsFinite(x) THEN Fin(RoundDiv(x.v, 10)) ELSE x

\* the 3 of `m.delay_s ?? 3`, in tenths of a millisecond
DefaultDelay == 30000

\* the 5 of `schedule[i].at - 5`, in milliseconds
Tolerance == 5

-----------------------------------------------------------------------------
(* FakeTextPreview: schedule and visibleCount *)

\* Math.round((m.delay_s ?? 3) * 1000)
DelayMs(m) ==
  MathRoundTimes1000(IF m.delay_s.k = "undef" THEN Fin(DefaultDelay) ELSE m.delay_s)

RECURSIVE ScheduleFrom(_, _, _)
ScheduleFromOwnDelay(msgs, i, acc) ==
  IF i > Len(msgs) THEN << >>
  ELSE << [id |-> msgs[i].id, at |-> JSAdd(acc, DelayMs(msgs[i]))] >>
         \o ScheduleFrom(msgs, i + 1, JSAdd(acc, DelayMs(msgs[i])))

\* the map callback from message i on, with the accumulator acc
ScheduleFrom(msgs, i, acc) ==
  IF i > Len(msgs) THEN << >>
  ELSE << [id |-> msgs[i].id, at |-> acc] >>
         \o ScheduleFrom(msgs, i + 1, JSAdd(acc, DelayMs(msgs[i])))

Schedule(msgs) == ScheduleFrom(msgs, 1, Fin(0))

\* the whole-millisecond delays of messages 1..n, added up
RECURSIVE PriorDelaySum(_, _)
PriorDelaySum(msgs, n) ==
  IF n = 0 THEN Fin(0) ELSE JSAdd(PriorDelaySum(msgs, n - 1), DelayMs(msgs[n]))

RECURSIVE VisibleFrom(_, _, _)
VisibleFromNoTolerance(sched, tm, i) ==
  IF i < Len(sched) /\ JSGe(tm, sched[i + 1].at)
  THEN VisibleFrom(sched, tm, i + 1)
  ELSE i

\* the while loop from index i on (0-based, as in the source)
VisibleFrom(sched, tm, i) ==
  IF i < Len(sched) /\ JSGe(tm, JSAdd(sched[i + 1].at, Fin(-Tolerance)))
  THEN VisibleFrom(sched, tm, i + 1)
  ELSE i

VisibleCount(sched, tm) == VisibleFrom(sched, tm, 0)

-----------------------------------------------------------------------------
(* FakeTextPreview: clock and reveal effect *)

\* CANVAS.h
CANVAS_H == 1920

\* DEFAULT_SETTINGS at hudScalePct 100: Math.max(120, Math.round(320 * S))
CHAT_MAX == 320

\* Math.max(40, Math.round(92 * S))
HEADER_H == 92

\* Math.round(110 * S)
HUD_Y == 110

\* the default of the durationMs prop
durationMs == 60000

\* const steps = 10, dt = 28 of the reveal effect
steps == 10

revealDt == 28

\* the delay of the reset timeout
HoldMs == 500

\* layout: the height of the time separator row above the bubbles
SepH == 32

\* Math.min(CHAT_MAX, Math.floor(CANVAS.h * 0.85 - HEADER_H - HUD_Y))
maxChatH == Min(CHAT_MAX, (CANVAS_H * 85) \div 100 - HEADER_H - HUD_Y)

\* useState(Math.max(100, Math.min(300, CHAT_MAX * 0.5)))
InitialRevealH == Max(100, Min(300, CHAT_MAX \div 2))

\* Math.max(100, Math.round(maxChatH * 0.5))
ResetRevealH == Max(100, RoundDiv(maxChatH, 2))

\* inner.scrollHeight with vc bubbles shown
scrollHeight(vc) == SepH + vc * bubbleH

\* contentH and to of the reveal effect
RevealTarget(vc) ==
  Max(100, Min(Min(maxChatH, scrollHeight(vc) + 12), maxChatH))

TimeMsOfT(em, ov, tt) == Fin(tt)

\* exportMode && typeof timeOverrideMs === 'number' ? timeOverrideMs : t
TimeMsOf(em, ov, tt) == IF em /\ ov.k # "undef" THEN ov ELSE Fin(tt)

\* the reveal effect after a render with vc bubbles and revealH rh: with an
\* unchanged visibleCount the interval iv stays; otherwise the cleanup clears
\* it and the effect starts a new one unless rh is at the target
RevealEffect(vcOld, vc, rh, iv) ==
  IF vc = vcOld THEN iv
  ELSE IF Abs(RevealTarget(vc) - rh) < 1 THEN {}
  ELSE { [i |-> 0, from |-> rh, to |-> RevealTarget(vc), due |-> now + revealDt] }

\* i < steps ? from + delta * i : to, rounded
RevealValue(iv, i) ==
  IF i < steps THEN RoundDiv(steps * iv.from + (iv.to - iv.from) * i, steps)
  ELSE iv.to

-----------------------------------------------------------------------------
(* Bounds and input sets *)

MaxMsgs == 3

AudioStep == 20

MaxAudioSteps == 2

\* delays typed into the delay input: "", 2, 5, -1, 0.0005
EditorDelays == { Undefined, Fin(20000), Fin(50000), Fin(-10000), Fin(5) }

\* every kind of value the type `delay_s?: number` holds
AnyDelays == EditorDelays \cup { NaN, Inf(1), Inf(-1) }

\* measured durations of a synthesised segment, in milliseconds
AudioDurs == { AudioStep * n : n \in 1..MaxAudioSteps }

\* true lengths of a synthesised segment, in tenths of a millisecond: they
\* measure as 0, 5, 1234, 1235, 2000 and 2000 ms
AudioLens == { 4, 45, 12340, 12345, 19996, 20000 }

\* the display's frame interval, in milliseconds
FrameMs == 28

\* the clock is followed up to this time
MaxNow == 900

\* transport bar events (play/pause, seek) in one run
MaxClicks == 2

\* actions of the script editor in one run
MaxEdits == 2

\* the voices offered by the two voice selects
Voices == { "adam", "alloy" }

\* the delay typed into a message's delay input while an export runs
TypedDelay == Fin(5000)

\* time passes in steps of this length when no callback is due
IdleStep == 250

\* the seek ratios are multiples of 1 / SeekDen
SeekDen == 400

SeekRatios == { 1 }

\* bubble heights: one line of text (12 + 2 * 12 + 27), and several lines
BubbleHeights == { 63, 140 }

\* scripts for the clock: delays 0.1 s, absent, absent
ClockScripts ==
  { << [id |-> 1, delay_s |-> Fin(1000)], [id |-> 2, delay_s |-> Undefined],
       [id |-> 3, delay_s |-> Undefined] >> }

\* scripts of an export host: delays of 0.02 s
HostScripts ==
  { [i \in 1..n |-> [id |-> i, delay_s |-> Fin(200)]] : n \in 1..MaxMsgs }

\* the values __setExportTime is called with
HostTimes == { 0, 33, 66 }

SampleTimes == { 0, 2500, 6994, 6995, 6999, 7000 }

\* times around the reveal instants of a schedule
RevealTimes(sched) ==
  { tm \in UNION { { sched[i].at.v - 6, sched[i].at.v - 5, sched[i].at.v } :
                   i \in { j \in 1..Len(sched) : IsFinite(sched[j].at) } } : tm >= 0 }

MessageLists(D) ==
  UNION { { [i \in 1..n |-> [id |-> i, delay_s |-> f[i]]] : f \in [1..n -> D] } :
          n \in 0..MaxMsgs }

-----------------------------------------------------------------------------
(* Initial states *)

\* the effects of an attempt on the outside: the indices synthesizeSegment
\* was called with, the message and the voice of each call, the number of
\* html2canvas calls, the errors given to console.error, the number of
\* download('fake-text.mp4', ...) calls
NoAttempt ==
  [tts |-> << >>, said |-> << >>, captures |-> 0, errors |-> << >>,
   downloads |-> 0]

\* no export attempt has been started
ExportIdle ==
  /\ exporting = FALSE
  /\ pc = "idle"
  /\ xmessages = << >>
  /\ ttsIdx = 0
  /\ ttsInFlight = {}
  /\ audioDurations = << >>
  /\ hostMessages = << >>
  /\ exportTime = 0
  /\ exportShown = 0
  /\ frameIdx = 0
  /\ inFlight = {}
  /\ canvas = [time |-> 0, visible |-> 0]
  /\ frames = << >>
  /\ off = "none"
  /\ exportNote = ""
  /\ audioSegBytes = << >>
  /\ written = << >>
  /\ attempt = NoAttempt
  /\ xvoice = ""
  /\ pipelines = 0

\* a FakeTextPreview after its first render and its effects
Mounted(em, ov) ==
  /\ exportMode = em
  /\ timeOverrideMs = ov
  /\ mounted = TRUE
  /\ playing = ~em
  /\ t = 0
  /\ startRef = Null
  /\ now = 0
  /\ revealH = InitialRevealH
  /\ timeouts = {}
  /\ clicks = << >>
  /\ schedule = Schedule(messages)
  /\ timeMs = TimeMsOf(em, ov, 0)
  /\ visibleCount = VisibleCount(Schedule(messages), TimeMsOf(em, ov, 0))
  /\ raf = IF em THEN {} ELSE { FrameMs }
  /\ interval =
       IF Abs(RevealTarget(visibleCount) - InitialRevealH) < 1 THEN {}
       ELSE { [i |-> 0, from |-> InitialRevealH,
               to |-> RevealTarget(visibleCount), due |-> revealDt] }

\* the first render of the live preview, with one-line bubbles
PreviewMounted ==
  /\ bubbleH = 63
  /\ Mounted(FALSE, Undefined)

\* the three messages FakeTextBuilder starts with, none with a delay
Init ==
  /\ messages = [i \in 1..3 |-> [id |-> i, delay_s |-> Undefined]]
  /\ PreviewMounted
  /\ ExportIdle
  /\ senderVoice = "adam"
  /\ edits = 0

InitSched ==
  /\ messages \in MessageLists(EditorDelays)
  /\ PreviewMounted
  /\ ExportIdle
  /\ senderVoice = "adam"
  /\ edits = 0

\* a script of n messages without delays, nothing exported yet
InitTiming ==
  /\ messages \in { [i \in 1..n |-> [id |-> i, delay_s |-> Undefined]] :
                     n \in 0..MaxMsgs }
  /\ PreviewMounted
  /\ ExportIdle
  /\ senderVoice = "adam"
  /\ edits = 0

\* an interactive preview of a script
InitClock ==
  /\ messages \in ClockScripts
  /\ bubbleH \in BubbleHeights
  /\ Mounted(FALSE, Undefined)
  /\ ExportIdle
  /\ senderVoice = "adam"
  /\ edits = 0

\* the preview of an export host: const [timeMs, setTimeMs] = useState(0)
InitHostClock ==
  /\ messages \in HostScripts
  /\ bubbleH \in BubbleHeights
  /\ Mounted(TRUE, Fin(0))
  /\ ExportIdle
  /\ senderVoice = "adam"
  /\ edits = 0

InitAny ==
  /\ messages \in MessageLists(AnyDelays)
  /\ PreviewMounted
  /\ ExportIdle
  /\ senderVoice = "adam"
  /\ edits = 0

-----------------------------------------------------------------------------
(* The live preview and the script editor *)

\* a render of the live FakeTextPreview at time tm
PreviewRender(tm) ==
  /\ t' = tm
  /\ timeMs' = Fin(tm)
  /\ visibleCount' = VisibleCount(schedule, Fin(tm))
  /\ interval' = RevealEffect(visibleCount, visibleCount', revealH, interval)
  /\ UNCHANGED << builderVars, schedule, exportMode, timeOverrideMs,
                  mounted, playing, startRef, raf, now, revealH, timeouts,
                  bubbleH, clicks >>
  /\ UNCHANGED exportVars

\* the live preview re-rendered with a new messages prop
PreviewRerender(msgs) ==
  /\ schedule' = Schedule(msgs)
  /\ visibleCount' = VisibleCount(Schedule(msgs), timeMs)
  /\ interval' = RevealEffect(visibleCount, visibleCount', revealH, interval)
  /\ UNCHANGED << timeMs, exportMode, timeOverrideMs, mounted, playing, t,
                  startRef, raf, now, revealH, timeouts, bubbleH, clicks >>

\* setField(id, { delay_s: d }) from the delay input
setField(id, d) ==
  /\ \E i \in 1..Len(messages) : messages[i].id = id
  /\ messages' = [i \in 1..Len(messages) |->
                    IF messages[i].id = id
                    THEN [messages[i] EXCEPT !.delay_s = d]
                    ELSE messages[i]]
  /\ PreviewRerender(messages')
  /\ UNCHANGED << senderVoice, exportVars >>

\* delMsg(id)
delMsg(id) ==
  /\ \E i \in 1..Len(messages) : messages[i].id = id
  /\ messages' = SelectSeq(messages, LAMBDA x : x.id # id)
  /\ PreviewRerender(messages')
  /\ UNCHANGED << senderVoice, exportVars >>

\* rid(): an id that no message held by the builder or by a running export
\* has
FreshId ==
  LET used == { messages[i].id : i \in 1..Len(messages) }
              \cup { xmessages[i].id : i \in 1..Len(xmessages) }
              \cup { hostMessages[i].id : i \in 1..Len(hostMessages) }
  IN  CHOOSE id \in 1..(Cardinality(used) + 1) : id \notin used

\* addMsg(): a new message at the end of the script
addMsg ==
  /\ Len(messages) < MaxMsgs
  /\ messages' = Append(messages, [id |-> FreshId, delay_s |-> Undefined])
  /\ PreviewRerender(messages')
  /\ UNCHANGED << senderVoice, exportVars >>

\* swap(arr, a, b), with 1-based positions
swap(arr, a, b) == [arr EXCEPT ![a] = arr[b], ![b] = arr[a]]

\* upMsg(i - 1): the message at position i moves up; the first stays
upMsg(i) ==
  /\ i \in 1..Len(messages)
  /\ messages' = IF i <= 1 THEN messages ELSE swap(messages, i, i - 1)
  /\ PreviewRerender(messages')
  /\ UNCHANGED << senderVoice, exportVars >>

\* dnMsg(i - 1): the message at position i moves down; the last stays
dnMsg(i) ==
  /\ i \in 1..Len(messages)
  /\ messages' = IF i >= Len(messages) THEN messages
                 ELSE swap(messages, i, i + 1)
  /\ PreviewRerender(messages')
  /\ UNCHANGED << senderVoice, exportVars >>

\* setSenderVoice(v), from the sender's voice select
setSenderVoice(v) ==
  /\ v # senderVoice
  /\ senderVoice' = v
  /\ UNCHANGED << messages, previewVars, exportVars >>

NextSched ==
  \/ \E tm \in SampleTimes \cup RevealTimes(schedule) : PreviewRender(tm)
  \/ /\ \E id \in 1..MaxMsgs, d \in EditorDelays : setField(id, d)
     /\ UNCHANGED edits

SchedSpec == InitSched /\ [][NextSched]_vars

NextAny ==
  \E tm \in SampleTimes \cup RevealTimes(schedule) : PreviewRender(tm)

AnySpec == InitAny /\ [][NextAny]_vars

-----------------------------------------------------------------------------
(* exportMp4Exact: helpers *)

fps == 30

\* Math.round(1000 / fps)
dt == RoundDiv(1000, fps)

RECURSIVE SumSeq(_)
\* audioDurations.reduce((a, b) => a + b, 0)
SumSeq(s) == IF s = << >> THEN 0 ELSE s[1] + SumSeq(Tail(s))

\* naturalDurationMs: the editor's estimate, Math.max(3000, total + 1500)
naturalDurationMs(msgs) ==
  Max(3000, PriorDelaySum(msgs, Len(msgs)).v + 1500)

naturalTotalMsFromEditor == naturalDurationMs(xmessages)

naturalTotalMs == SumSeq(audioDurations)

\* Math.ceil(naturalTotalMs / dt)
totalFrames == (naturalTotalMs + dt - 1) \div dt

exportTimelineMsUnclamped(i) == i * dt

\* Math.min(naturalTotalMs, Math.round(i * dt))
exportTimelineMs(i) == Min(naturalTotalMs, i * dt)

ExportDelayTruncated(d) == (d \div 10) * 100

\* Math.max(0.01, Math.round((d || 0) / 10) / 100), in tenths of a millisecond
ExportDelay(d) == Max(100, RoundDiv(d, 10) * 100)

messagesForExportOfEditor ==
  [i \in 1..Len(messages) |->
     [messages[i] EXCEPT !.delay_s =
        Fin(ExportDelay(IF i <= Len(audioDurations)
                        THEN audioDurations[i] ELSE 0))]]

\* messages.map((m, i) => ({ ...m, delay_s: ... audioDurations[i] ... }))
messagesForExport ==
  [i \in 1..Len(xmessages) |->
     [xmessages[i] EXCEPT !.delay_s = Fin(ExportDelay(audioDurations[i]))]]

\* what the export host's FakeTextPreview shows for its timeOverrideMs
HostVisible(msgs, tm) == VisibleCount(Schedule(msgs), Fin(tm))

\* the async function returns: its locals are gone
LocalsGone ==
  /\ xmessages' = << >>
  /\ ttsIdx' = 0
  /\ audioDurations' = << >>
  /\ frameIdx' = 0
  /\ canvas' = [time |-> 0, visible |-> 0]
  /\ frames' = << >>
  /\ audioSegBytes' = << >>
  /\ written' = << >>
  /\ xvoice' = ""
  /\ pipelines' = pipelines - 1

\* the export host is unmounted: its state is gone
HostGone ==
  /\ hostMessages' = << >>
  /\ exportTime' = 0
  /\ exportShown' = 0

\* the catch block, entered with the error e
Catch(e) ==
  /\ exportNote' = "Export failed. See console."
  /\ attempt' = [attempt EXCEPT !.errors = Append(@, e)]
  /\ exporting' = FALSE
  /\ pc' = "idle"
  /\ LocalsGone

-----------------------------------------------------------------------------
(* exportMp4Exact: one action per stretch between two awaits *)

ExportStartUnguarded ==
  /\ exporting' = TRUE
  /\ exportNote' = "Preparing renderer..."
  /\ xmessages' = messages
  /\ off' = "mounted"
  /\ hostMessages' = messages
  /\ exportTime' = 0
  /\ exportShown' = 0
  /\ ttsIdx' = 0
  /\ audioDurations' = << >>
  /\ frameIdx' = 0
  /\ frames' = << >>
  /\ audioSegBytes' = << >>
  /\ written' = << >>
  /\ attempt' = NoAttempt
  /\ xvoice' = senderVoice
  /\ pipelines' = pipelines + 1
  /\ pc' = "raf1"
  /\ UNCHANGED << ttsInFlight, inFlight, canvas, builderVars, previewVars >>

\* the click on Render MP4, up to the first await
ExportStart ==
  /\ ~exporting
  /\ exporting' = TRUE
  /\ exportNote' = "Preparing renderer..."
  /\ xmessages' = messages
  /\ off' = "mounted"
  /\ hostMessages' = messages
  /\ exportTime' = 0
  /\ exportShown' = 0
  /\ ttsIdx' = 0
  /\ audioDurations' = << >>
  /\ frameIdx' = 0
  /\ frames' = << >>
  /\ audioSegBytes' = << >>
  /\ written' = << >>
  /\ attempt' = NoAttempt
  /\ xvoice' = senderVoice
  /\ pipelines' = pipelines + 1
  /\ pc' = "raf1"
  /\ UNCHANGED << ttsInFlight, inFlight, canvas, builderVars, previewVars >>

\* the animation frame after the first mount
Raf1 ==
  /\ pc = "raf1"
  /\ pc' = "tts"
  /\ exportNote' = "Generating speech audio"
  /\ UNCHANGED << exporting, xmessages, ttsIdx, ttsInFlight, audioDurations,
                  hostMessages, exportTime, exportShown, frameIdx, inFlight,
                  canvas, frames, off, audioSegBytes, written, attempt,
                  builderVars, xvoice, pipelines, previewVars >>

TtsRequestNotAwaited ==
  /\ pc = "tts"
  /\ ttsIdx < Len(xmessages)
  /\ ttsInFlight' = ttsInFlight \cup { ttsIdx }
  /\ attempt' = [attempt EXCEPT
                   !.tts = Append(@, ttsIdx),
                   !.said = Append(@, [msg |-> xmessages[ttsIdx + 1],
                                       voice |-> xvoice])]
  /\ exportNote' = "Generating speech"
  /\ audioSegBytes' = Append(audioSegBytes, 0)
  /\ audioDurations' = Append(audioDurations, 0)
  /\ ttsIdx' = ttsIdx + 1
  /\ UNCHANGED << exporting, pc, xmessages, hostMessages, exportTime,
                  exportShown, frameIdx, inFlight, canvas, frames, off,
                  written, builderVars, xvoice, pipelines, previewVars >>

\* the speech loop calls synthesizeSegment for message ttsIdx
TtsRequest ==
  /\ pc = "tts"
  /\ ttsIdx < Len(xmessages)
  /\ ttsInFlight' = ttsInFlight \cup { ttsIdx }
  /\ attempt' = [attempt EXCEPT
                   !.tts = Append(@, ttsIdx),
                   !.said = Append(@, [msg |-> xmessages[ttsIdx + 1],
                                       voice |-> xvoice])]
  /\ exportNote' = "Generating speech"
  /\ pc' = "ttsWait"
  /\ UNCHANGED << exporting, xmessages, ttsIdx, audioDurations,
                  hostMessages, exportTime, exportShown, frameIdx, inFlight,
                  canvas, frames, off, audioSegBytes, written, builderVars,
                  xvoice, pipelines, previewVars >>

\* inside synthesizeSegment: the voice endpoint answers with !res.ok, the
\* fallback endpoint is fetched for the same message
TtsFallback ==
  /\ pc = "ttsWait"
  /\ pc' = "ttsFallback"
  /\ UNCHANGED << exporting, xmessages, ttsIdx, ttsInFlight, audioDurations,
                  hostMessages, exportTime, exportShown, frameIdx, inFlight,
                  canvas, frames, off, exportNote, audioSegBytes, written,
                  attempt, builderVars, xvoice, pipelines, previewVars >>

\* synthesizeSegment resolves with a segment whose audio is len tenths of a
\* millisecond long: durationMs = Math.round(audioBuf.duration * 1000)
TtsResolve(len) ==
  /\ pc \in { "ttsWait", "ttsFallback" }
  /\ ttsInFlight' = ttsInFlight \ { ttsIdx }
  /\ audioSegBytes' = Append(audioSegBytes, len)
  /\ audioDurations' = Append(audioDurations, RoundDiv(len, 10))
  /\ ttsIdx' = ttsIdx + 1
  /\ pc' = "tts"
  /\ UNCHANGED << exporting, xmessages, hostMessages, exportTime,
                  exportShown, frameIdx, inFlight, canvas, frames, off,
                  exportNote, written, attempt, builderVars, xvoice,
                  pipelines, previewVars >>

TtsRejectSkipped ==
  /\ pc \in { "ttsWait", "ttsFallback" }
  /\ ttsInFlight' = ttsInFlight \ { ttsIdx }
  /\ attempt' = [attempt EXCEPT !.errors = Append(@, "TTS failed")]
  /\ audioSegBytes' = Append(audioSegBytes, 0)
  /\ audioDurations' = Append(audioDurations, 0)
  /\ ttsIdx' = ttsIdx + 1
  /\ pc' = "tts"
  /\ UNCHANGED << exporting, xmessages, hostMessages, exportTime,
                  exportShown, frameIdx, inFlight, canvas, frames, off,
                  exportNote, written, builderVars, xvoice, pipelines,
                  previewVars >>

\* synthesizeSegment throws: a fetch rejects, the fallback answers with
\* !res.ok (TTS failed), or decodeAudioData rejects
TtsReject ==
  /\ pc \in { "ttsWait", "ttsFallback" }
  /\ ttsInFlight' = ttsInFlight \ { ttsIdx }
  /\ Catch("TTS failed")
  /\ UNCHANGED << hostMessages, exportTime, exportShown, inFlight, off,
                  builderVars, previewVars >>

\* after the speech loop: offRoot.unmount(), then offRoot.render of a host
\* with the speech-driven messages
Remount ==
  /\ pc = "tts"
  /\ ttsIdx >= Len(xmessages)
  /\ hostMessages' = messagesForExport
  /\ exportTime' = 0
  /\ exportShown' = 0
  /\ off' = "mounted"
  /\ pc' = "raf2"
  /\ UNCHANGED << exporting, xmessages, ttsIdx, ttsInFlight, audioDurations,
                  frameIdx, inFlight, canvas, frames, exportNote,
                  audioSegBytes, written, attempt, builderVars, xvoice,
                  pipelines, previewVars >>

\* the same stretch when offRoot.render throws because the root was just
\* unmounted.  react-dom decides which of the two happens; it is not part
\* of the source, so both outcomes are kept.
RemountThrows ==
  /\ pc = "tts"
  /\ ttsIdx >= Len(xmessages)
  /\ off' = "unmounted"
  /\ HostGone
  /\ Catch("Cannot update an unmounted root.")
  /\ UNCHANGED << ttsInFlight, inFlight, builderVars, previewVars >>

\* the animation frame after the remount, and the import of html2canvas
Raf2 ==
  /\ pc = "raf2"
  /\ exportNote' = "Capturing frames"
  /\ frameIdx' = 0
  /\ frames' = << >>
  /\ pc' = "loop"
  /\ UNCHANGED << exporting, xmessages, ttsIdx, ttsInFlight, audioDurations,
                  hostMessages, exportTime, exportShown, inFlight, canvas,
                  off, audioSegBytes, written, attempt, builderVars, xvoice,
                  pipelines, previewVars >>

CaptureStepOnLiveClock ==
  /\ pc = "loop"
  /\ frameIdx <= totalFrames
  /\ exportTime' = exportTimelineMs(frameIdx)
  /\ t' = exportTimelineMs(frameIdx)
  /\ pc' = "raf"
  /\ UNCHANGED << exporting, xmessages, ttsIdx, ttsInFlight, audioDurations,
                  hostMessages, exportShown, frameIdx, inFlight, canvas,
                  frames, off, exportNote, audioSegBytes, written, attempt,
                  builderVars, xvoice, pipelines, timeMs, schedule,
                  visibleCount, exportMode, timeOverrideMs, mounted,
                  playing, startRef, raf, now, revealH, interval, timeouts,
                  bubbleH, clicks >>

\* the head of a capture step: __setExportTime(exportTimelineMs)
CaptureStep ==
  /\ pc = "loop"
  /\ frameIdx <= totalFrames
  /\ exportTime' = exportTimelineMs(frameIdx)
  /\ pc' = "raf"
  /\ UNCHANGED << exporting, xmessages, ttsIdx, ttsInFlight, audioDurations,
                  hostMessages, exportShown, frameIdx, inFlight, canvas,
                  frames, off, exportNote, audioSegBytes, written, attempt,
                  builderVars, xvoice, pipelines, previewVars >>

\* the animation frame of a capture step: by then React has rendered the
\* host with the timeMs that was set
RafYield ==
  /\ pc = "raf"
  /\ exportShown' = exportTime
  /\ pc' = "h2c"
  /\ UNCHANGED << exporting, xmessages, ttsIdx, ttsInFlight, audioDurations,
                  hostMessages, exportTime, frameIdx, inFlight, canvas,
                  frames, off, exportNote, audioSegBytes, written, attempt,
                  builderVars, xvoice, pipelines, previewVars >>

Html2canvasCallNotAwaited ==
  /\ pc = "h2c"
  /\ inFlight' = inFlight \cup { frameIdx }
  /\ attempt' = [attempt EXCEPT !.captures = @ + 1]
  /\ frameIdx' = frameIdx + 1
  /\ pc' = "loop"
  /\ UNCHANGED << exporting, xmessages, ttsIdx, ttsInFlight, audioDurations,
                  hostMessages, exportTime, exportShown, canvas, frames,
                  off, exportNote, audioSegBytes, written, builderVars,
                  xvoice, pipelines, previewVars >>

\* html2canvas(targetEl, ...) is called and awaited
Html2canvasCall ==
  /\ pc = "h2c"
  /\ inFlight' = inFlight \cup { frameIdx }
  /\ attempt' = [attempt EXCEPT !.captures = @ + 1]
  /\ pc' = "h2cWait"
  /\ UNCHANGED << exporting, xmessages, ttsIdx, ttsInFlight, audioDurations,
                  hostMessages, exportTime, exportShown, frameIdx, canvas,
                  frames, off, exportNote, audioSegBytes, written,
                  builderVars, xvoice, pipelines, previewVars >>

\* html2canvas resolves with a canvas of what the offscreen DOM shows
Html2canvasDone ==
  /\ pc = "h2cWait"
  /\ inFlight' = inFlight \ { frameIdx }
  /\ canvas' = [time |-> exportShown,
                visible |-> HostVisible(hostMessages, exportShown)]
  /\ pc' = "blob"
  /\ UNCHANGED << exporting, xmessages, ttsIdx, ttsInFlight, audioDurations,
                  hostMessages, exportTime, exportShown, frameIdx, frames,
                  off, exportNote, audioSegBytes, written, attempt,
                  builderVars, xvoice, pipelines, previewVars >>

\* html2canvas rejects
Html2canvasThrows ==
  /\ pc = "h2cWait"
  /\ inFlight' = inFlight \ { frameIdx }
  /\ Catch("html2canvas")
  /\ UNCHANGED << ttsInFlight, hostMessages, exportTime, exportShown, off,
                  builderVars, previewVars >>

\* canvas.toBlob gives a blob: frames.push, i++
ToBlob ==
  /\ pc = "blob"
  /\ frames' = Append(frames, [index |-> frameIdx, time |-> canvas.time,
                               visible |-> canvas.visible])
  /\ frameIdx' = frameIdx + 1
  /\ pc' = "loop"
  /\ UNCHANGED << exporting, xmessages, ttsIdx, ttsInFlight, audioDurations,
                  hostMessages, exportTime, exportShown, inFlight, canvas,
                  off, exportNote, audioSegBytes, written, attempt,
                  builderVars, xvoice, pipelines, previewVars >>

ToBlobNullRetried ==
  /\ pc = "blob"
  /\ pc' = "h2c"
  /\ UNCHANGED << exporting, xmessages, ttsIdx, ttsInFlight, audioDurations,
                  hostMessages, exportTime, exportShown, frameIdx, inFlight,
                  canvas, frames, off, exportNote, audioSegBytes, written,
                  attempt, builderVars, xvoice, pipelines, previewVars >>

\* canvas.toBlob gives null: Canvas toBlob failed
ToBlobNull ==
  /\ pc = "blob"
  /\ Catch("Canvas toBlob failed")
  /\ UNCHANGED << ttsInFlight, hostMessages, exportTime, exportShown,
                  inFlight, off, builderVars, previewVars >>

\* the capture loop ends
CaptureLoopExit ==
  /\ pc = "loop"
  /\ frameIdx > totalFrames
  /\ exportNote' = "Encoding audio"
  /\ pc' = "encode"
  /\ UNCHANGED << exporting, xmessages, ttsIdx, ttsInFlight, audioDurations,
                  hostMessages, exportTime, exportShown, frameIdx, inFlight,
                  canvas, frames, off, audioSegBytes, written, attempt,
                  builderVars, xvoice, pipelines, previewVars >>

\* import('@ffmpeg/ffmpeg'), new FFmpeg(), ffmpeg.load()
FfmpegLoad ==
  /\ pc = "encode"
  /\ written' = << >>
  /\ pc' = "write"
  /\ UNCHANGED << exporting, xmessages, ttsIdx, ttsInFlight, audioDurations,
                  hostMessages, exportTime, exportShown, frameIdx, inFlight,
                  canvas, frames, off, exportNote, audioSegBytes, attempt,
                  builderVars, xvoice, pipelines, previewVars >>

\* one pass of the frame loop: ffmpeg.writeFile(frame_<i>.jpg, frames[i])
WriteFrame ==
  /\ pc = "write"
  /\ Len(written) < Len(frames)
  /\ written' = Append(written, [name |-> Len(written),
                                 frame |-> frames[Len(written) + 1]])
  /\ UNCHANGED << exporting, pc, xmessages, ttsIdx, ttsInFlight,
                  audioDurations, hostMessages, exportTime, exportShown,
                  frameIdx, inFlight, canvas, frames, off, exportNote,
                  audioSegBytes, attempt, builderVars, xvoice, pipelines,
                  previewVars >>

\* the audio segments are written and concatenated, the MP4 is encoded,
\* read and downloaded; then the cleanup
EncodeAndDownload ==
  /\ pc = "write"
  /\ Len(written) >= Len(frames)
  /\ attempt' = [attempt EXCEPT !.downloads = @ + 1]
  /\ off' = "none"
  /\ HostGone
  /\ exportNote' = ""
  /\ exporting' = FALSE
  /\ pc' = "idle"
  /\ LocalsGone
  /\ UNCHANGED << ttsInFlight, inFlight, builderVars, previewVars >>

\* an ffmpeg call throws
EncodeThrows ==
  /\ pc \in { "encode", "write" }
  /\ Catch("ffmpeg")
  /\ UNCHANGED << ttsInFlight, hostMessages, exportTime, exportShown,
                  inFlight, off, builderVars, previewVars >>

Next ==
  \/ /\ \E i \in 1..Len(messages) : delMsg(messages[i].id)
     /\ UNCHANGED edits
  \/ ExportStart
  \/ Raf1
  \/ TtsRequest
  \/ TtsFallback
  \/ \E d \in AudioDurs : TtsResolve(10 * d)
  \/ TtsReject
  \/ Remount
  \/ RemountThrows
  \/ Raf2
  \/ CaptureStep
  \/ RafYield
  \/ Html2canvasCall
  \/ Html2canvasDone
  \/ Html2canvasThrows
  \/ ToBlob
  \/ ToBlobNull
  \/ CaptureLoopExit
  \/ FfmpegLoad
  \/ WriteFrame
  \/ EncodeAndDownload
  \/ EncodeThrows

Spec == Init /\ [][Next]_vars

\* an export attempt from the click to the head of the capture loop, with
\* segments of every length of AudioLens
NextTiming ==
  \/ ExportStart
  \/ Raf1
  \/ TtsRequest
  \/ \E len \in AudioLens : TtsResolve(len)
  \/ Remount
  \/ Raf2

TimingSpec == InitTiming /\ [][NextTiming]_vars

-----------------------------------------------------------------------------
(* FakeTextPreview: the callbacks of the clock and of the reveal effect *)

\* React renders with the new state (pl, tt, ov, rh) and runs the effects
\* whose dependencies changed.  rf and iv are the animation frame requests
\* and the interval as the running callback left them.
\* timeline runner (deps playing, t, exportMode, timeOverrideMs): its cleanup
\* or its !playing branch cancels raf.current; it requests a frame when
\* playing and not driven from outside.
Commit(pl, tt, ov, rh, rf, iv) ==
  /\ playing' = pl
  /\ t' = tt
  /\ timeOverrideMs' = ov
  /\ revealH' = rh
  /\ timeMs' = TimeMsOf(exportMode, ov, tt)
  /\ visibleCount' = VisibleCount(schedule, timeMs')
  /\ raf' = IF pl = playing /\ tt = t /\ ov = timeOverrideMs THEN rf
            ELSE IF exportMode /\ ov.k # "undef" THEN {}
            ELSE IF ~pl THEN {}
            ELSE { now + FrameMs }
  /\ interval' = RevealEffect(visibleCount, visibleCount', rh, iv)

\* the due times of the pending callbacks
Dues == raf \cup { iv.due : iv \in interval } \cup timeouts

MinOf(S) == CHOOSE x \in S : \A y \in S : x <= y

\* time passes up to the next due callback
Tick ==
  /\ now' = IF Dues = {} THEN now + IdleStep ELSE MinOf(Dues)
  /\ now' > now
  /\ now' <= MaxNow
  /\ UNCHANGED << builderVars, timeMs, schedule, visibleCount, exportMode,
                  timeOverrideMs, mounted, playing, t, startRef, raf,
                  revealH, interval, timeouts, bubbleH, clicks >>
  /\ UNCHANGED exportVars

\* step(now): the animation frame callback of the timeline runner
RafFire ==
  /\ \E due \in raf : due <= now
  /\ startRef' = IF startRef = Null THEN Fin(now - t) ELSE startRef
  /\ Commit(playing, now - startRef'.v, timeOverrideMs, revealH,
            { now + FrameMs }, interval)
  /\ UNCHANGED << builderVars, schedule, exportMode, mounted, now, timeouts,
                  bubbleH, clicks >>
  /\ UNCHANGED exportVars

\* the interval callback of the reveal effect.  i counts up to steps only:
\* beyond steps every pass does the same.
IntervalFire ==
  \E iv \in interval :
    /\ iv.due <= now
    /\ timeouts' = IF Min(iv.i + 1, steps) >= steps /\ iv.to >= maxChatH - 8
                   THEN timeouts \cup { now + HoldMs }
                   ELSE timeouts
    /\ Commit(playing, t, timeOverrideMs,
              RevealValue(iv, Min(iv.i + 1, steps)), raf,
              { [iv EXCEPT !.i = Min(iv.i + 1, steps), !.due = now + revealDt] })
    /\ UNCHANGED << builderVars, schedule, exportMode, mounted, startRef,
                    now, bubbleH, clicks >>
    /\ UNCHANGED exportVars

\* the timeout callback of the reveal effect: the reset.  On an unmounted
\* component the state setters do nothing; the ref is written all the same.
TimeoutFire ==
  \E due \in timeouts :
    /\ due <= now
    /\ timeouts' = timeouts \ { due }
    /\ startRef' = Fin(now)
    /\ IF mounted
       THEN Commit(playing, 0, timeOverrideMs, ResetRevealH, raf, interval)
       ELSE UNCHANGED << playing, t, timeOverrideMs, revealH, timeMs,
                         visibleCount, raf, interval >>
    /\ UNCHANGED << builderVars, schedule, exportMode, mounted, now,
                    bubbleH, clicks >>
    /\ UNCHANGED exportVars

\* onTogglePlay, from the transport bar (rendered when !exportMode)
onTogglePlay ==
  /\ mounted
  /\ ~exportMode
  /\ Len(clicks) < MaxClicks
  /\ clicks' = Append(clicks, IF playing THEN "pause" ELSE "play")
  /\ Commit(~playing, t, timeOverrideMs, revealH, raf, interval)
  /\ UNCHANGED << builderVars, schedule, exportMode, mounted, startRef, now,
                  timeouts, bubbleH >>
  /\ UNCHANGED exportVars

\* onSeekRatio(r / SeekDen), from the transport bar
onSeekRatio(r) ==
  /\ mounted
  /\ ~exportMode
  /\ Len(clicks) < MaxClicks
  /\ clicks' = Append(clicks, "seek")
  /\ startRef' = Fin(now - (r * durationMs) \div SeekDen)
  /\ Commit(playing, (r * durationMs) \div SeekDen, timeOverrideMs, revealH,
            raf, interval)
  /\ UNCHANGED << builderVars, schedule, exportMode, mounted, now, timeouts,
                  bubbleH >>
  /\ UNCHANGED exportVars

\* the export host's setTimeMs(tm): a new timeOverrideMs prop.  The capture
\* loop calls it with times that do not decrease.
SetExportTime(tm) ==
  /\ mounted
  /\ exportMode
  /\ tm > timeOverrideMs.v
  /\ Commit(playing, t, Fin(tm), revealH, raf, interval)
  /\ UNCHANGED << builderVars, schedule, exportMode, mounted, startRef, now,
                  timeouts, bubbleH, clicks >>
  /\ UNCHANGED exportVars

\* the component unmounts: the cleanups of both effects run
Unmount ==
  /\ mounted
  /\ mounted' = FALSE
  /\ raf' = {}
  /\ interval' = {}
  /\ UNCHANGED << builderVars, timeMs, schedule, visibleCount, exportMode,
                  timeOverrideMs, playing, t, startRef, now, revealH,
                  timeouts, bubbleH, clicks >>
  /\ UNCHANGED exportVars

NextClock ==
  \/ Tick
  \/ RafFire
  \/ IntervalFire
  \/ TimeoutFire
  \/ onTogglePlay
  \/ \E r \in SeekRatios : onSeekRatio(r)
  \/ Unmount

ClockSpec == InitClock /\ [][NextClock]_vars

NextHostClock ==
  \/ Tick
  \/ IntervalFire
  \/ TimeoutFire
  \/ \E tm \in HostTimes : SetExportTime(tm)
  \/ Unmount

HostClockSpec == InitHostClock /\ [][NextHostClock]_vars

-----------------------------------------------------------------------------
(* FakeTextBuilder with both of its previews: the live FakeTextPreview runs *)
(* its clock while exportMp4Exact works on the offscreen host              *)

\* the builder with a script whose messages follow each other quickly
InitLive ==
  /\ messages \in { s \in HostScripts : Len(s) = 2 }
  /\ bubbleH \in BubbleHeights
  /\ Mounted(FALSE, Undefined)
  /\ ExportIdle
  /\ senderVoice = "adam"
  /\ edits = 0

ExportSteps ==
  \/ ExportStart
  \/ Raf1
  \/ TtsRequest
  \/ TtsFallback
  \/ \E d \in AudioDurs : TtsResolve(10 * d)
  \/ TtsReject
  \/ Remount
  \/ RemountThrows
  \/ Raf2
  \/ CaptureStep
  \/ RafYield
  \/ Html2canvasCall
  \/ Html2canvasDone
  \/ Html2canvasThrows
  \/ ToBlob
  \/ ToBlobNull
  \/ CaptureLoopExit
  \/ FfmpegLoad
  \/ WriteFrame
  \/ EncodeAndDownload
  \/ EncodeThrows

\* the editor is used for at most MaxEdits actions
OneEdit == edits < MaxEdits /\ edits' = edits + 1

\* one action of the script editor or of the voice select
EditorSteps ==
  \/ OneEdit /\ addMsg
  \/ \E i \in 1..Len(messages) : OneEdit /\ delMsg(messages[i].id)
  \/ \E i \in 1..Len(messages) : OneEdit /\ upMsg(i)
  \/ \E i \in 1..Len(messages) : OneEdit /\ dnMsg(i)
  \/ \E i \in 1..Len(messages) :
       OneEdit /\ setField(messages[i].id, TypedDelay)
  \/ \E v \in Voices : OneEdit /\ setSenderVoice(v)

\* exportMp4Exact with segments of one length
NextEdit ==
  \/ EditorSteps
  \/ ExportStart
  \/ Raf1
  \/ TtsRequest
  \/ TtsFallback
  \/ TtsResolve(10 * AudioStep)
  \/ TtsReject
  \/ Remount
  \/ RemountThrows
  \/ Raf2
  \/ CaptureStep
  \/ RafYield
  \/ Html2canvasCall
  \/ Html2canvasDone
  \/ Html2canvasThrows
  \/ ToBlob
  \/ ToBlobNull
  \/ CaptureLoopExit
  \/ FfmpegLoad
  \/ WriteFrame
  \/ EncodeAndDownload
  \/ EncodeThrows

EditSpec == Init /\ [][NextEdit]_vars

NextLive ==
  \/ Tick
  \/ RafFire
  \/ IntervalFire
  \/ TimeoutFire
  \/ ExportSteps

LiveSpec == InitLive /\ [][NextLive]_vars

-----------------------------------------------------------------------------
(* Claims about the reveal schedule *)

WithDelay(msgs, i, d) == [msgs EXCEPT ![i].delay_s = d]

\* C2: the schedule has one entry per message; the `at` of entry i is the
\* sum of the whole-millisecond delays of the messages before it (0 for the
\* first), and giving message i another delay leaves its own `at` alone.
C2_AtIsSumOfPriorDelays ==
  /\ Len(schedule) = Len(messages)
  /\ \A i \in 1..Len(schedule) :
       /\ schedule[i].at = PriorDelaySum(messages, i - 1)
       /\ \A d \in EditorDelays :
            Schedule(WithDelay(messages, i, d))[i].at = schedule[i].at

\* delays 0.0005 s and 2 s before the third message: it is due at 1 + 2000 ms
C2_Witness ==
  /\ Len(messages) = 3
  /\ messages[1].delay_s = Fin(5)
  /\ messages[2].delay_s = Fin(20000)
  /\ schedule[3].at = Fin(2001)

\* C3: the `at` values of the schedule are non-decreasing in list order,
\* also when the list holds a negative delay.
C3_AtNonDecreasing ==
  \A i \in 1..(Len(schedule) - 1) : JSGe(schedule[i + 1].at, schedule[i].at)

DueEntries(sched, tm) ==
  { i \in 1..Len(sched) : JSGe(JSAdd(tm, Fin(5)), sched[i].at) }

\* C5: visibleCount is the number of schedule entries that are due.
C5_VisibleCountIsDueCount ==
  visibleCount = Cardinality(DueEntries(schedule, timeMs))

\* the messages of the worked example: delays 2 s, 5 s, absent
IsExample256 ==
  /\ Len(messages) = 3
  /\ messages[1].delay_s = Fin(20000)
  /\ messages[2].delay_s = Fin(50000)
  /\ messages[3].delay_s = Undefined

ExampleAtValues ==
  [i \in 1..3 |-> schedule[i].at] = << Fin(0), Fin(2000), Fin(7000) >>

\* C6 as stated: at values [0, 2000, 7000]; visibleCount 2 at 2500, 2 at
\* 6999 and 3 at 7000.
C6_ExampleAsStated ==
  IsExample256 =>
    /\ ExampleAtValues
    /\ timeMs = Fin(2500) => visibleCount = 2
    /\ timeMs = Fin(6999) => visibleCount = 2
    /\ timeMs = Fin(7000) => visibleCount = 3

\* C6 amended: at values [0, 2000, 7000]; visibleCount 2 at 2500, 2 at 6994,
\* and 3 from 6995 on (6999 and 7000 included): the third message is shown
\* 5 ms early.
C6_ExampleWithTolerance ==
  IsExample256 =>
    /\ ExampleAtValues
    /\ timeMs = Fin(2500) => visibleCount = 2
    /\ timeMs = Fin(6994) => visibleCount = 2
    /\ timeMs = Fin(6995) => visibleCount = 3
    /\ timeMs = Fin(6999) => visibleCount = 3
    /\ timeMs = Fin(7000) => visibleCount = 3

C6_Witness == IsExample256 /\ timeMs = Fin(6999) /\ visibleCount = 3

\* C7: visibleCount never decreases as the time grows, and at the `at` of
\* the last entry it is the number of entries.
C7_MonotoneAndComplete ==
  /\ \A t1, t2 \in SampleTimes \cup RevealTimes(schedule) :
       t1 <= t2 => VisibleCount(schedule, Fin(t1)) <= VisibleCount(schedule, Fin(t2))
  /\ Len(schedule) > 0 =>
       VisibleCount(schedule, schedule[Len(schedule)].at) = Len(schedule)

-----------------------------------------------------------------------------
(* Claims about the export pipeline *)

\* what the live preview, given the messages msgs, shows at time tm
PreviewVisibleAt(msgs, tm) == VisibleCount(Schedule(msgs), Fin(tm))

\* C1: every captured frame shows as many bubbles as the live preview shows
\* at the frame's time for the editor state the export was started from.
C1_PreviewExportParity ==
  \A k \in 1..Len(frames) :
    frames[k].visible = PreviewVisibleAt(xmessages, frames[k].time)

\* C8: when the capture loop has ended it has captured exactly
\* floor(durationMs / (1000 / fps)) + 1 frames: 4 frames for 100 ms at 30 fps.
C8_FrameCount ==
  pc = "encode" =>
    /\ Len(frames) = (naturalTotalMs * fps) \div 1000 + 1
    /\ naturalTotalMs = 100 => Len(frames) = 4

\* min(durationMs, round(i * 1000 / fps))
ClaimedExportTime(i) == Min(naturalTotalMs, RoundDiv(i * 1000, fps))

\* C9: the export time set for frame i, and the time frame i was captured
\* at, is min(durationMs, round(i * 1000 / fps)).
C9_ExportTimeOfFrame ==
  /\ pc \in { "raf", "h2c", "h2cWait", "blob" } =>
       exportTime = ClaimedExportTime(frameIdx)
  /\ \A k \in 1..Len(frames) :
       frames[k].time = ClaimedExportTime(frames[k].index)

CapturePcs == { "loop", "raf", "h2c", "h2cWait", "blob" }

\* during the capture loop the export time changes only at the head of a
\* step, with no capture in flight and every earlier frame appended
ExportTimeWrittenInLockstep ==
  (pc \in CapturePcs /\ exportTime' # exportTime) =>
    /\ pc = "loop"
    /\ pc' = "raf"
    /\ inFlight = {}
    /\ Len(frames) = frameIdx
    /\ exportTime' = exportTimelineMs(frameIdx)

\* while step i waits for its frame, the export time is the one set for i,
\* and the frame appended for i is the rendering of that time
ExportTimeHeldForStep ==
  /\ pc \in { "raf", "h2c", "h2cWait", "blob" } =>
       exportTime = exportTimelineMs(frameIdx)
  /\ pc \in { "h2c", "h2cWait", "blob" } => exportShown = exportTime
  /\ pc = "blob" => canvas.time = exportTime
  /\ \A k \in 1..Len(frames) :
       /\ frames[k].index = k - 1
       /\ frames[k].time = exportTimelineMs(k - 1)

\* C10: at most one capture is in flight, the capture in flight is the one of
\* the current step, and from the setting of the export time for step i
\* until frame i is appended the export time does not change.
C10_CaptureAwaitedBeforeAdvance ==
  /\ [](/\ Cardinality(inFlight) <= 1
        /\ inFlight # {} => (pc = "h2cWait" /\ inFlight = { frameIdx })
        /\ ExportTimeHeldForStep)
  /\ [][ExportTimeWrittenInLockstep]_vars

\* the capture of frame 2 is in flight, frames 0 and 1 are appended
C10_Witness ==
  /\ pc = "h2cWait"
  /\ frameIdx = 2
  /\ inFlight = { 2 }
  /\ Len(frames) = 2
  /\ exportTime = 66

\* the frames captured so far are those of the indices 0, 1, 2, ... in this
\* order, one html2canvas call each, at times that do not decrease
FramesInIndexOrder ==
  /\ \A k \in 1..Len(frames) :
       /\ frames[k].index = k - 1
       /\ k > 1 => frames[k].time >= frames[k - 1].time
  /\ pc \in CapturePcs =>
       /\ frameIdx \in 0..(totalFrames + 1)
       /\ Len(frames) = frameIdx
       /\ attempt.captures = frameIdx + (IF pc \in { "h2cWait", "blob" } THEN 1 ELSE 0)

\* when the loop has ended the last frame is the one captured at durationMs
LastFrameAtDuration ==
  pc \in { "encode", "write" } =>
    /\ Len(frames) = totalFrames + 1
    /\ frames[Len(frames)].time = naturalTotalMs

\* file k of the encoder's input is frame k: frame_%05d.jpg is read in
\* name order
WrittenInIndexOrder ==
  \A k \in 1..Len(written) :
    /\ written[k].name = k - 1
    /\ written[k].frame = frames[k]
    /\ written[k].frame.index = k - 1

\* within the capture loop the export time that is set never decreases
ExportTimeNeverDecreases ==
  (pc \in CapturePcs /\ pc' \in CapturePcs) => exportTime' >= exportTime

\* C11: the capture loop visits the frame indices 0, 1, 2, ... once each and
\* in increasing order, the export times it sets never decrease, the last
\* frame is captured at exactly durationMs, and the frames are written to the
\* encoder in index order.
C11_FramesInOrderToEncoder ==
  /\ [](FramesInIndexOrder /\ LastFrameAtDuration /\ WrittenInIndexOrder)
  /\ [][ExportTimeNeverDecreases]_vars

\* 40 ms of speech: frames 0, 1, 2 at 0, 33 and 40 ms, all three written
C11_Witness ==
  /\ pc = "write"
  /\ naturalTotalMs = 40
  /\ [k \in 1..Len(frames) |-> frames[k].time] = << 0, 33, 40 >>
  /\ [k \in 1..Len(written) |-> written[k].frame.index] = << 0, 1, 2 >>

\* the stages of an attempt after the speech loop
AfterSpeechPcs == CapturePcs \cup { "raf2", "encode", "write" }

\* C12: synthesizeSegment is called once per message, in message order, and
\* the call for the next message is made only when the call before it has
\* resolved: there are never two calls in flight.
C12_SynthesisSequential ==
  /\ Cardinality(ttsInFlight) <= 1
  /\ ttsInFlight # {} =>
       (pc \in { "ttsWait", "ttsFallback" } /\ ttsInFlight = { ttsIdx })
  /\ attempt.tts = [k \in 1..Len(attempt.tts) |-> k - 1]
  /\ pc = "tts" =>
       (Len(attempt.tts) = ttsIdx /\ Len(audioDurations) = ttsIdx)
  /\ pc \in { "ttsWait", "ttsFallback" } =>
       (Len(attempt.tts) = ttsIdx + 1 /\ Len(audioDurations) = ttsIdx)
  /\ pc \in AfterSpeechPcs =>
       (Len(attempt.tts) = Len(xmessages) /\ Len(audioDurations) = Len(xmessages))

\* the call for the third message is in flight, two segments are measured
C12_Witness ==
  /\ pc = "ttsWait"
  /\ ttsInFlight = { 2 }
  /\ attempt.tts = << 0, 1, 2 >>
  /\ Len(audioDurations) = 2

-----------------------------------------------------------------------------
(* Claims about failures of an export attempt *)

\* the attempt has ended in the catch block: the flag is down, the note
\* says so, one error was logged, and no file was downloaded
EndedInFailure ==
  /\ pc = "idle"
  /\ exporting = FALSE
  /\ exportNote = "Export failed. See console."
  /\ Len(attempt.errors) = 1
  /\ attempt.downloads = 0

\* after the end of an attempt its record changes only by the next click
\* on Render MP4
OnlyAClickRestarts ==
  (pc = "idle" /\ exportVars' # exportVars) => ExportStart

SynthesisFailed ==
  attempt.errors # << >> /\ attempt.errors[1] = "TTS failed"

\* C13: when synthesizeSegment throws for a message, the attempt ends in the
\* catch block with one logged error and no download; no later message was
\* requested, no frame was captured, and nothing more follows by itself.
C13_SynthesisFailureIsTerminal ==
  /\ [](SynthesisFailed =>
          /\ EndedInFailure
          /\ attempt.captures = 0
          /\ attempt.tts = [k \in 1..Len(attempt.tts) |-> k - 1])
  /\ [][(pc \in { "ttsWait", "ttsFallback" } /\ attempt'.errors # attempt.errors)
          => (pc' = "idle" /\ attempt'.tts = attempt.tts
              /\ attempt.tts[Len(attempt.tts)] = ttsIdx)]_vars
  /\ [][SynthesisFailed => OnlyAClickRestarts]_vars

\* the synthesis of message 2 of 3 failed
C13_Witness ==
  /\ SynthesisFailed
  /\ Len(messages) = 3
  /\ attempt.tts = << 0, 1 >>
  /\ attempt.captures = 0
  /\ attempt.downloads = 0
  /\ pc = "idle"

CaptureOrEncodeFailed ==
  /\ attempt.errors # << >>
  /\ attempt.errors[1] \in { "Canvas toBlob failed", "html2canvas", "ffmpeg" }

\* a step out of the toBlob await either appends the frame and goes on, or
\* ends the attempt; a step that logs an error ends the attempt
FailedStepNotRetried ==
  /\ (pc = "blob" /\ pc' # "blob") =>
        \/ (pc' = "loop" /\ Len(frames') = Len(frames) + 1)
        \/ (pc' = "idle" /\ Len(attempt'.errors) = 1)
  /\ (pc # "idle" /\ attempt'.errors # attempt.errors) =>
        /\ pc' = "idle"
        /\ attempt'.captures = attempt.captures
        /\ attempt'.downloads = 0

\* C14: when a capture gives no data or an ffmpeg call throws, the attempt
\* ends in the catch block with no download; the failed step is not tried
\* again and nothing but a new click starts another attempt.
C14_CaptureOrEncodeFailureIsTerminal ==
  /\ [](CaptureOrEncodeFailed => EndedInFailure)
  /\ [][FailedStepNotRetried]_vars
  /\ [][CaptureOrEncodeFailed => OnlyAClickRestarts]_vars

\* toBlob gave null for the second frame
C14_Witness ==
  /\ attempt.errors = << "Canvas toBlob failed" >>
  /\ attempt.captures = 2
  /\ attempt.downloads = 0
  /\ pc = "idle"
  /\ exporting = FALSE

-----------------------------------------------------------------------------
(* Claims about the speech-driven timing of the export *)

\* the whole number of hundredths of a second nearest to d milliseconds,
\* a half counting upwards
NearestHundredth(d) ==
  CHOOSE h \in 0..(d \div 10 + 1) : 10 * h - d > -5 /\ 10 * h - d <= 5

\* max(0.01, round(d / 10) / 100) seconds, in tenths of a millisecond
ClaimedExportDelay(d) ==
  IF NearestHundredth(d) < 1 THEN 100 ELSE 100 * NearestHundredth(d)

\* C15: the host of the capture loop is given, for message i, the delay
\* max(0.01, round(durationMs_i / 10) / 100) seconds, never less than 0.01;
\* measured durations [1234, 2000] give [1.23, 2.0].
C15_ExportDelayFromDuration ==
  pc \in { "raf2", "loop" } =>
    /\ Len(hostMessages) = Len(audioDurations)
    /\ \A i \in 1..Len(hostMessages) :
         /\ hostMessages[i].delay_s = Fin(ClaimedExportDelay(audioDurations[i]))
         /\ hostMessages[i].delay_s.v >= 100
    /\ audioDurations = << 1234, 2000 >> =>
         [i \in 1..2 |-> hostMessages[i].delay_s] = << Fin(12300), Fin(20000) >>

C15_Witness ==
  /\ pc = "loop"
  /\ audioDurations = << 1234, 2000 >>
  /\ [i \in 1..2 |-> hostMessages[i].delay_s] = << Fin(12300), Fin(20000) >>

RECURSIVE SumMeasured(_)
\* the segments' lengths, each measured in whole milliseconds, added up
SumMeasured(lens) ==
  IF lens = << >> THEN 0 ELSE RoundDiv(lens[1], 10) + SumMeasured(Tail(lens))

-----------------------------------------------------------------------------
(* Claims about the clock of FakeTextPreview *)

\* the step is a run of the animation frame callback
IsTick == (\E due \in raf : due <= now) /\ RafFire

\* C17: after a pause and a resume the ticks go on from the time the clock
\* was paused at: a tick after the resume shows at most one frame interval
\* more than was shown before it, however long the pause was.
C17_ResumeContinuesFromPause ==
  [][(IsTick /\ clicks # << >> /\ clicks[Len(clicks)] = "play")
       => t' <= t + FrameMs]_vars

\* C18: in export mode the time that decides which bubbles are visible is
\* the time last set from outside; it changes only when a new time is set,
\* whatever intervals and reset timeouts of the preview run.
C18_ExportTimeOnlySetFromOutside ==
  /\ [](exportMode =>
          /\ timeMs = timeOverrideMs
          /\ visibleCount = VisibleCount(schedule, timeOverrideMs)
          /\ raf = {})
  /\ [][(exportMode /\ (timeMs' # timeMs \/ visibleCount' # visibleCount))
          => (timeOverrideMs' # timeOverrideMs /\ timeMs' = timeOverrideMs')]_vars

\* a reset timeout has run in the export host while its time stands at 66
C18_Witness ==
  /\ exportMode
  /\ mounted
  /\ startRef # Null
  /\ revealH = ResetRevealH
  /\ timeOverrideMs = Fin(66)
  /\ timeMs = Fin(66)
  /\ visibleCount = 3

\* the interactive clock is paused, or its component is unmounted
Cancelled == ~exportMode /\ (~playing \/ ~mounted)

\* C19: once the interactive clock is cancelled no callback of the preview
\* runs: without an event of the transport bar, the time, the anchor, the
\* reveal height and the pending timers stay as they are.
C19_NoCallbackAfterCancel ==
  [][(Cancelled /\ clicks' = clicks /\ mounted' = mounted)
       => UNCHANGED << t, startRef, revealH, interval, timeouts >>]_vars

\* the step is a run of the reset timeout on the mounted, playing preview
IsReset ==
  /\ mounted
  /\ ~exportMode
  /\ playing
  /\ timeouts' # timeouts
  /\ timeouts' \subseteq timeouts

\* C20: the clock of a playing preview is reset to 0 only when all messages
\* have been revealed, and the reset leaves the messages as they are.
C20_ResetOnlyAfterAllRevealed ==
  [][IsReset => (visibleCount = Len(messages) /\ t' = 0
                 /\ messages' = messages)]_vars

-----------------------------------------------------------------------------
(* Claims about an export attempt and the rest of the builder *)

\* C21: whatever an export attempt does (it mounts the offscreen host, sets
\* the host's export time, fails), the step leaves the live preview's
\* timeline time, its playing flag and the anchor of its clock as they were;
\* the host's time is a state of its own.
C21_ExportLeavesLiveClock ==
  [][(exportVars' # exportVars) => UNCHANGED << t, playing, startRef >>]_vars

\* the live clock has run on to a time of its own while an attempt mounted
\* its host, set an export time and then failed
C21_Witness ==
  /\ off = "mounted"
  /\ exportTime > 0
  /\ attempt.errors # << >>
  /\ playing
  /\ t > 0
  /\ t # exportTime

\* the messages of the host are the captured ones, in their order, with
\* their own delays or with the delays made from the measured durations
HostShowsCaptured ==
  /\ Len(hostMessages) = Len(xmessages)
  /\ \A i \in 1..Len(hostMessages) :
       \/ hostMessages[i] = xmessages[i]
       \/ /\ i <= Len(audioDurations)
          /\ hostMessages[i] =
               [xmessages[i] EXCEPT
                  !.delay_s = Fin(ExportDelay(audioDurations[i]))]

\* every synthesizeSegment call so far was made for a captured message, in
\* the captured order, with the captured voice
SaidCaptured ==
  /\ Len(attempt.said) <= Len(xmessages)
  /\ \A k \in 1..Len(attempt.said) :
       attempt.said[k] = [msg |-> xmessages[k], voice |-> xvoice]

\* C22: an attempt works on the messages and the voice its click captured.
\* The click takes the script and the voice as they are then; while the
\* attempt runs, no step (in particular no add, delete, reorder, edit or
\* voice change of the editor) changes the captured values, every message
\* synthesized is a captured one spoken with the captured voice, and the
\* host renders the captured messages.
C22_AttemptUsesCapturedScript ==
  /\ [][(~exporting /\ exporting')
          => (xmessages' = messages /\ xvoice' = senderVoice
              /\ hostMessages' = messages)]_vars
  /\ [][(exporting /\ exporting')
          => (xmessages' = xmessages /\ xvoice' = xvoice)]_vars
  /\ [](exporting => (SaidCaptured /\ HostShowsCaptured))

\* all captured messages were synthesized and a frame was captured after
\* the script lost or gained a message and the voice was changed
C22_Witness ==
  /\ exporting
  /\ frames # << >>
  /\ Len(attempt.said) = Len(xmessages)
  /\ Len(messages) # Len(xmessages)
  /\ senderVoice # xvoice

-----------------------------------------------------------------------------
(* Claims about what the export host shows *)

\* C23: in export mode what a captured frame shows, the visible bubbles and
\* the height of the chat body, is determined by the messages, the settings
\* and the export time: while the export time stays as it is, no interval
\* and no timeout of the host changes either of them.
C23_FrameDeterminedByExportTime ==
  [][(exportMode /\ mounted /\ timeOverrideMs' = timeOverrideMs)
       => UNCHANGED << visibleCount, revealH >>]_vars

-----------------------------------------------------------------------------
(* Claims about the end of an export attempt *)

\* an attempt has run and has ended, by a download or by an error
AttemptEnded ==
  /\ pc = "idle"
  /\ (attempt.downloads > 0 \/ attempt.errors # << >>)

\* C24: when an attempt has ended, by success or by a failure at any step,
\* its offscreen surface is unmounted and removed from the document, and an
\* attempt that failed has delivered no file.
C24_SurfaceGoneWhenAttemptEnds ==
  AttemptEnded =>
    /\ off = "none"
    /\ (attempt.errors # << >> => attempt.downloads = 0)

\* C25: at most one call of exportMp4Exact is past its guard at any time,
\* the exporting flag is set exactly while it is, and while the flag is set
\* a click on Render MP4 starts nothing: the capture loop that sets the
\* host's export time is the only one.
C25_OneAttemptAtATime ==
  /\ pipelines <= 1
  /\ (exporting <=> pipelines = 1)
  /\ (pc # "idle" <=> exporting)
  /\ (exporting => ~ENABLED ExportStart)

\* an attempt is in its capture loop, with frames captured and the export
\* time set by it
C25_Witness ==
  /\ exporting
  /\ pipelines = 1
  /\ pc = "raf"
  /\ frames # << >>
  /\ exportTime > 0

-----------------------------------------------------------------------------
(* Claims about the last frame *)

\* C26: whatever the measured durations are, the host shows every message at
\* the time of the last frame, the total of the measured durations: the
\* visibleCount of the schedule made from the durations is the number of
\* messages.
C26_LastFrameShowsAllMessages ==
  pc = "loop" =>
    /\ exportTimelineMs(totalFrames) = naturalTotalMs
    /\ HostVisible(hostMessages, exportTimelineMs(totalFrames))
         = Len(hostMessages)

-----------------------------------------------------------------------------
(* Claims about the paused clock *)

\* C27: while the interactive clock is paused its time changes only by a
\* seek of the transport bar: no tick, no step of the growth animation and
\* no reset changes the time of a paused preview.
C27_PausedTimeChangesOnlyBySeek ==
  [][(~exportMode /\ mounted /\ ~playing /\ ~playing' /\ t' # t)
       => clicks' = Append(clicks, "seek")]_vars

\* the errors of a synthesis, capture or encode call that did not return
CallErrors == { "TTS failed", "html2canvas", "Canvas toBlob failed", "ffmpeg" }

\* no synthesis, capture or encode call of the attempt has failed
EveryCallReturned ==
  \A k \in 1..Len(attempt.errors) : attempt.errors[k] \notin CallErrors

\* C28: an attempt in which every synthesis, capture and encode call
\* returned ends with exactly one file delivered; an attempt that failed has
\* delivered none; either way the exporting flag is cleared at the end, so
\* that a new attempt can be started.
C28_SuccessfulCallsDeliverOneFile ==
  AttemptEnded =>
    /\ ~exporting
    /\ ENABLED ExportStart
    /\ attempt.downloads = (IF EveryCallReturned THEN 1 ELSE 0)

====
